---- MODULE Spec2Model ----
(***************************************************************************)
(* Model of LpCockooHash<int, Value, HashOpts> (lp_cockoo_hash.h) as it is *)
(* instantiated by lp_cockoo_hash_test.cc: two tables of                   *)
(* buckets_per_table_ slots, buckets of BucketWidth slots with wrap-around *)
(* probing, insert with a breadth-first eviction search, erase in place.   *)
(* Every public operation runs to completion on one thread, so each is one *)
(* action; the loops of the code are the recursive operators below.        *)
(***************************************************************************)
EXTENDS Integers, Sequences, FiniteSets, TLC

\* ---------------------------------------------------------------- bounds
\* capacities given to the constructor: 1..MaxElems
MaxElems == 5
\* keys of the insert/erase/find specification: 0..MaxKey
MaxKey == 5
\* keys of the fill (insert-only) specification: 0..MaxFillKey
MaxFillKey == 9
\* the colliding keys of the third specification: i * B for i in 0..MaxColliding
MaxColliding == 4
\* capacity of the table of the chain specification (B = 4)
ChainElems == 8
\* keys of the chain specification: 0..MaxChainKey
MaxChainKey == 9

\* ------------------------------------------------------ program constants
NumHashes == 2
BucketWidth == 2
kEmpty == -1
MaxBfsRounds == 100
\* kNoParent is numeric_limits<size_t>::max(); no queue index reaches it, so
\* it is kept as a value outside 0..Len(queue).
kNoParent == -1
\* Content of Value::value before the client writes it: Value() sets only the
\* key, Init() writes only the key. The engine never reads the field (swap
\* moves it as part of the slot); Uninit stands for that indeterminate content.
Uninit == 0

VARIABLES
    elems,               \* constructor argument
    buckets_per_table_,  \* B
    tables_,             \* tables_[t][j] = [key, value]
    aborted,             \* abort() was called: the process is gone
    last,                \* the last call and what it returned
    stored,              \* abstract set of keys: +k on inserted, -k on erase
    written              \* written[k]: payload the client last wrote for k (0: none)

vars == <<elems, buckets_per_table_, tables_, aborted, last, stored, written>>

Keys == 0 .. MaxKey
FillKeys == 0 .. MaxFillKey
CollidingKeys(m) == {i * m : i \in 0 .. MaxColliding}
ChainKeys == 0 .. MaxChainKey

\* ------------------------------------------------------------ constructor
\* buckets_per_table_ = (elems / 0.9 - 1) / NumHashes + 1, truncated to size_t.
\* (elems/0.9 - 1)/N + 1 = (10*elems - 9 + 9*N) / (9*N); for N = 2 the exact
\* value is never an integer (10*elems + 9 is odd), so the double result is
\* at least 1/18 away from an integer and truncation equals the integer floor.
BucketsPerTable(n) == (10 * n - 9 + 9 * NumHashes) \div (9 * NumHashes)

EmptyValue == [key |-> kEmpty, value |-> Uninit]

Alloc(n) == [j \in 0 .. n - 1 |-> EmptyValue]

\* ------------------------------------------------------------- HashOpts
\* size_t Hash(int hash_index, Key k) { return k + hash_index; }
\* The int sum is converted to size_t (mod 2^64); only its residue mod B is
\* used, so the residue is what is computed here.
\* 2^64 mod m, by squaring 2^16 twice
SizeModulus(m) ==
    LET a == 65536 % m
        b == (a * a) % m
    IN (b * b) % m

HashMod(hash_index, k, m) ==
    IF k + hash_index >= 0 THEN (k + hash_index) % m
    ELSE (SizeModulus(m) + ((k + hash_index) % m)) % m

Equals(k, v) == k = v.key

\* mutant: the empty sentinel taken to be 0 instead of kEmpty
EmptyZeroSentinel(v) == v.key = 0

Empty(v) == v.key = kEmpty

\* void Init(int hash_index, size_t hash, Key k, Value* v) { v->key = k; }
InitValue(k, v) == [v EXCEPT !.key = k]

\* mutant: Clear resets the payload and leaves the key
ClearKeepsKey(v) == [v EXCEPT !.value = Uninit]

\* Clear(Value* v) { v->key = kEmpty; }
Clear(v) == [v EXCEPT !.key = kEmpty]

\* ---------------------------------------------------------- coordinates
EndIt == [table |-> NumHashes, index |-> 0]

It(t, j) == [table |-> t, index |-> j]

Slot(tb, c) == tb[c.table][c.index]

\* mutant: the index is advanced without the reset to 0
NextIndexNoWrap(ti, m) == ti + 1

\* ti++; if (ti >= buckets_per_table_) ti = 0;
NextIndex(ti, m) == IF ti + 1 >= m THEN 0 ELSE ti + 1

RECURSIVE Probe(_, _, _)
\* the index examined at step dd of the loop over a bucket whose first index
\* is base, in a table of m slots
Probe(base, dd, m) == IF dd = 0 THEN base ELSE NextIndex(Probe(base, dd - 1, m), m)

\* the slots the two outer loops of find and of insert's first phase visit,
\* in the order of the visit (lines 175-186 and 196-210)
ScanOrderOf(key, m) ==
    [n \in 1 .. NumHashes * BucketWidth |->
        LET hi == (n - 1) \div BucketWidth
            dd == (n - 1) % BucketWidth
        IN It(hi, Probe(HashMod(hi, key, m), dd, m))]

\* mutant: every seed but the first names the first seed as its parent
SeedQueueChained(key, m) ==
    [n \in 1 .. NumHashes * BucketWidth |->
        LET hash_idx == (n - 1) \div BucketWidth
            dd == (n - 1) % BucketWidth
        IN [id |-> n - 1, parent |-> IF n = 1 THEN kNoParent ELSE 0,
            table |-> hash_idx,
            index |-> Probe(HashMod(hash_idx, key, m), dd, m)]]

\* the seeds of the BFS queue (lines 224-231)
SeedQueueOf(key, m) ==
    [n \in 1 .. NumHashes * BucketWidth |->
        LET hash_idx == (n - 1) \div BucketWidth
            dd == (n - 1) % BucketWidth
        IN [id |-> n - 1, parent |-> kNoParent, table |-> hash_idx,
            index |-> Probe(HashMod(hash_idx, key, m), dd, m)]]

\* mutant: the alternate bucket rooted at the hash of the entry's own table
AltCoordsOwnHash(t, k, m) ==
    SelectSeq(
        [n \in 1 .. NumHashes * BucketWidth |->
            LET hash_idx2 == (n - 1) \div BucketWidth
                dd == (n - 1) % BucketWidth
            IN It(hash_idx2, Probe(HashMod(t, k, m), dd, m))],
        LAMBDA x : x.table # t)

\* the slots of the alternate buckets of an entry with key k sitting in table
\* t, in the order the loops of lines 238-242 visit them
AltCoordsOf(t, k, m) ==
    SelectSeq(
        [n \in 1 .. NumHashes * BucketWidth |->
            LET hash_idx2 == (n - 1) \div BucketWidth
                dd == (n - 1) % BucketWidth
            IN It(hash_idx2, Probe(HashMod(hash_idx2, k, m), dd, m))],
        LAMBDA x : x.table # t)

\* These three depend only on the key and on the table size; they are
\* tabulated once for the keys and sizes of the model.
BucketCounts ==
    1 .. BucketsPerTable(IF MaxElems > ChainElems THEN MaxElems ELSE ChainElems)
HashedKeys == (kEmpty .. MaxKey) \cup (kEmpty .. MaxFillKey) \cup ChainKeys
              \cup UNION {CollidingKeys(m) : m \in BucketCounts}
ScanTable == [m \in BucketCounts |-> [k \in HashedKeys |-> ScanOrderOf(k, m)]]
SeedTable == [m \in BucketCounts |-> [k \in HashedKeys |-> SeedQueueOf(k, m)]]
AltTable ==
    [m \in BucketCounts |->
        [t \in 0 .. NumHashes - 1 |-> [k \in HashedKeys |-> AltCoordsOf(t, k, m)]]]

ScanOrder(key) == ScanTable[buckets_per_table_][key]
SeedQueue(key) == SeedTable[buckets_per_table_][key]
AltCoords(c, elem) == AltTable[buckets_per_table_][c.table][elem.key]

\* ------------------------------------------------------------------ find
RECURSIVE FindStopsAtEmpty(_, _, _, _)
\* mutant: the scan of a bucket ends at its first empty slot
FindStopsAtEmpty(tb, key, sc, n) ==
    IF n > Len(sc) THEN EndIt
    ELSE IF Equals(key, Slot(tb, sc[n])) THEN sc[n]
    ELSE IF Empty(Slot(tb, sc[n]))
         THEN FindStopsAtEmpty(tb, key, sc,
                               ((n - 1) \div BucketWidth + 1) * BucketWidth + 1)
    ELSE FindStopsAtEmpty(tb, key, sc, n + 1)

RECURSIVE FindFrom(_, _, _, _)
FindFrom(tb, key, sc, n) ==
    IF n > Len(sc) THEN EndIt
    ELSE IF Equals(key, Slot(tb, sc[n])) THEN sc[n]
    ELSE FindFrom(tb, key, sc, n + 1)

find(tb, key) == FindFrom(tb, key, ScanOrder(key), 1)

\* ---------------------------------------------------------------- insert
\* Outcomes of one insert call. "full" is the abort() of line 260; the
\* "abort_*" outcomes are the abort() calls of EvictChain; "oob" is a read of
\* queue[qi] past the end of the queue.
Result(outcome, it, tb, rounds, chain, qlen) ==
    [outcome |-> outcome, it |-> it, tables |-> tb, rounds |-> rounds,
     chain |-> chain, qlen |-> qlen]

\* mutant: the scan returns at the first empty slot, before the rest of the
\* home buckets has been compared with the key
PreScanEarlyExit(tb, key, sc, n, empty_slot) ==
    LET seen == {i \in 1 .. Len(sc) :
                    /\ \A j \in 1 .. i - 1 : ~Empty(Slot(tb, sc[j]))
                    /\ Empty(Slot(tb, sc[i]) ) \/ Equals(key, Slot(tb, sc[i]))}
        first == CHOOSE i \in seen : \A j \in seen : i <= j
    IN IF seen = {} THEN [dup |-> FALSE, it |-> EndIt]
       ELSE [dup |-> ~Empty(Slot(tb, sc[first])), it |-> sc[first]]

\* mutant: the scan remembers the last empty slot it meets, not the first
PreScanLastEmpty(tb, key, sc, n, empty_slot) ==
    LET hits == {i \in 1 .. Len(sc) : Equals(key, Slot(tb, sc[i]))}
        free == {i \in 1 .. Len(sc) : Empty(Slot(tb, sc[i]))}
    IN IF hits # {}
       THEN [dup |-> TRUE, it |-> sc[CHOOSE i \in hits : \A j \in hits : i <= j]]
       ELSE IF free = {} THEN [dup |-> FALSE, it |-> EndIt]
       ELSE [dup |-> FALSE, it |-> sc[CHOOSE i \in free : \A j \in free : i >= j]]

\* Phase 1: the scan of both home buckets (lines 195-210).
RECURSIVE PreScan(_, _, _, _, _)
PreScan(tb, key, sc, n, empty_slot) ==
    IF n > Len(sc) THEN [dup |-> FALSE, it |-> empty_slot]
    ELSE IF empty_slot = EndIt /\ Empty(Slot(tb, sc[n]))
         THEN PreScan(tb, key, sc, n + 1, sc[n])
    ELSE IF Equals(key, Slot(tb, sc[n])) THEN [dup |-> TRUE, it |-> sc[n]]
    ELSE PreScan(tb, key, sc, n + 1, empty_slot)

\* mutant: the swap exchanges the keys and leaves the payloads in place
SwapKeysOnly(tb, c0, c1) ==
    [t \in DOMAIN tb |->
        [j \in DOMAIN tb[t] |->
            IF It(t, j) = It(c0.table, c0.index)
            THEN [tb[t][j] EXCEPT !.key = Slot(tb, c1).key]
            ELSE IF It(t, j) = It(c1.table, c1.index)
            THEN [tb[t][j] EXCEPT !.key = Slot(tb, c0).key]
            ELSE tb[t][j]]]

\* std::swap(*v0, *v1)
Swap(tb, c0, c1) ==
    [t \in DOMAIN tb |->
        [j \in DOMAIN tb[t] |->
            IF It(t, j) = It(c0.table, c0.index) THEN Slot(tb, c1)
            ELSE IF It(t, j) = It(c1.table, c1.index) THEN Slot(tb, c0)
            ELSE tb[t][j]]]

\* mutant: the walk follows one parent link and stops
BuildChainOneStep(chain, tail, queue) ==
    IF tail.parent = kNoParent THEN [ok |-> TRUE, chain |-> chain]
    ELSE IF tail.parent >= Len(queue) THEN [ok |-> FALSE, chain |-> chain]
    ELSE [ok |-> TRUE, chain |-> Append(chain, queue[tail.parent + 1])]

\* while (tail.parent != kNoParent) { ... chain->push_back(queue[tail.parent]) }
RECURSIVE BuildChain(_, _, _)
BuildChain(chain, tail, queue) ==
    IF tail.parent = kNoParent THEN [ok |-> TRUE, chain |-> chain]
    ELSE IF tail.parent >= Len(queue) THEN [ok |-> FALSE, chain |-> chain]
    ELSE BuildChain(Append(chain, queue[tail.parent + 1]),
                    queue[tail.parent + 1], queue)

\* the swaps in the other order: swap(slot(c_{i-1}), slot(c_i)) for
\* i = L-1, L-2, ..., 1, on the chain numbered from the tail c_0
RECURSIVE SwapRootFirst(_, _, _)
SwapRootFirst(tb, chain, i) ==
    IF i < 1 THEN tb
    ELSE SwapRootFirst(Swap(tb, chain[i], chain[i + 1]), chain, i - 1)

\* mutant: EvictChain swaps from the root end
SwapChainRootFirst(tb, chain, i) == SwapRootFirst(tb, chain, Len(chain) - 1)

\* for (i = 0; i < chain->size() - 1; i++) swap(slot(chain[i]), slot(chain[i+1]))
RECURSIVE SwapChain(_, _, _)
SwapChain(tb, chain, i) ==
    IF i >= Len(chain) - 1 THEN tb
    ELSE SwapChain(Swap(tb, chain[i + 1], chain[i + 2]), chain, i + 1)

CoordsOf(chain) == [i \in 1 .. Len(chain) |-> It(chain[i].table, chain[i].index)]

EvictChain(tb, tail, queue) ==
    LET b == BuildChain(<<tail>>, tail, queue)
        chain == b.chain
        swapped == SwapChain(tb, chain, 0)
        vacated == chain[Len(chain)]
    IN IF ~b.ok THEN [abort |-> "abort_parent", tables |-> tb, vacated |-> vacated,
                      chain |-> CoordsOf(chain)]
       ELSE IF Len(chain) < 2
            THEN [abort |-> "abort_short", tables |-> tb, vacated |-> vacated,
                  chain |-> CoordsOf(chain)]
       ELSE IF ~Empty(Slot(swapped, vacated))
            THEN [abort |-> "abort_vacated", tables |-> swapped, vacated |-> vacated,
                  chain |-> CoordsOf(chain)]
       ELSE [abort |-> "none", tables |-> swapped, vacated |-> vacated,
             chain |-> CoordsOf(chain)]

\* mutant: a new queue entry names the entry pushed before it as its parent
RECURSIVE ExpandLinksPrevious(_, _, _, _, _)
ExpandLinksPrevious(tb, queue, qi, alts, n) ==
    IF n > Len(alts) THEN [found |-> FALSE, queue |-> queue, tail |-> queue[1]]
    ELSE LET c2 == [id |-> Len(queue), parent |-> Len(queue) - 1,
                    table |-> alts[n].table, index |-> alts[n].index]
         IN IF Empty(Slot(tb, c2)) THEN [found |-> TRUE, queue |-> queue, tail |-> c2]
            ELSE ExpandLinksPrevious(tb, Append(queue, c2), qi, alts, n + 1)

\* one BFS expansion: the inner loops of lines 238-257 for the node at qi
RECURSIVE Expand(_, _, _, _, _)
Expand(tb, queue, qi, alts, n) ==
    IF n > Len(alts) THEN [found |-> FALSE, queue |-> queue, tail |-> queue[1]]
    ELSE LET c2 == [id |-> Len(queue), parent |-> qi,
                    table |-> alts[n].table, index |-> alts[n].index]
         IN IF Empty(Slot(tb, c2)) THEN [found |-> TRUE, queue |-> queue, tail |-> c2]
            ELSE Expand(tb, Append(queue, c2), qi, alts, n + 1)

\* mutant: the loop test off by one
BfsContinueInclusive(rep) == rep <= MaxBfsRounds

\* for (int rep = 0; rep < 100; rep++)
BfsContinue(rep) == rep < MaxBfsRounds

\* The state of the loop of lines 233-259: the queue, the read index qi, the
\* loop counter rep and, once the call has ended inside the loop, its result.
BfsState(queue, qi, rep, done, res) ==
    [queue |-> queue, qi |-> qi, rep |-> rep, done |-> done, res |-> res]

NoResult == Result("none", EndIt, <<>>, 0, <<>>, 0)

\* one pass of the loop: its test, its body and qi++
BfsRound(tb, key, s) ==
    IF s.done THEN s
    ELSE IF ~BfsContinue(s.rep)
         THEN BfsState(s.queue, s.qi, s.rep, TRUE,
                       Result("full", EndIt, tb, s.rep, <<>>, Len(s.queue)))
    ELSE IF s.qi >= Len(s.queue)
         THEN BfsState(s.queue, s.qi, s.rep, TRUE,
                       Result("oob", EndIt, tb, s.rep, <<>>, Len(s.queue)))
    ELSE LET c == s.queue[s.qi + 1]
             elem == Slot(tb, c)
             x == Expand(tb, s.queue, s.qi, AltCoords(c, elem), 1)
         IN IF x.found
            THEN LET e == EvictChain(tb, x.tail, x.queue)
                     it == It(e.vacated.table, e.vacated.index)
                 IN BfsState(x.queue, s.qi, s.rep, TRUE,
                        IF e.abort # "none"
                        THEN Result(e.abort, EndIt, e.tables, s.rep + 1, e.chain,
                                    Len(x.queue))
                        ELSE Result("inserted", it,
                                    [e.tables EXCEPT ![it.table][it.index] =
                                                         InitValue(key, @)],
                                    s.rep + 1, e.chain, Len(x.queue)))
            ELSE BfsState(x.queue, s.qi + 1, s.rep + 1, FALSE, NoResult)

\* n passes of the loop from state s (split in halves: the loop runs up to
\* MaxBfsRounds times and is not unrolled on the evaluation stack)
RECURSIVE BfsRounds(_, _, _, _)
BfsRounds(tb, key, s, n) ==
    IF n = 0 \/ s.done THEN s
    ELSE IF n = 1 THEN BfsRound(tb, key, s)
    ELSE BfsRounds(tb, key, BfsRounds(tb, key, s, n \div 2), n - n \div 2)

\* mutant: the key takes the first seed slot before the search starts
BfsEvictsFirst(tb, key) ==
    LET c == SeedQueue(key)[1]
    IN BfsRounds([tb EXCEPT ![c.table][c.index] = InitValue(key, @)], key,
                 BfsState(SeedQueue(key), 0, 0, FALSE, NoResult),
                 MaxBfsRounds + 2).res

\* Phase 2 (lines 218-261); the loop ends within MaxBfsRounds + 1 tests
Bfs(tb, key) ==
    BfsRounds(tb, key, BfsState(SeedQueue(key), 0, 0, FALSE, NoResult),
              MaxBfsRounds + 2).res

insert(tb, key) ==
    LET p == PreScan(tb, key, ScanOrder(key), 1, EndIt)
    IN IF p.dup THEN Result("duplicate", p.it, tb, 0, <<>>, 0)
       ELSE IF p.it # EndIt
            THEN Result("inserted", p.it,
                        [tb EXCEPT ![p.it.table][p.it.index] = InitValue(key, @)],
                        0, <<>>, 0)
       ELSE Bfs(tb, key)

\* ----------------------------------------------------------------- erase
erase(tb, it) == [tb EXCEPT ![it.table][it.index] = Clear(@)]

\* ------------------------------------------------------------- the calls
NoCall == [op |-> "none", key |-> 0, it |-> EndIt, outcome |-> "none",
           rounds |-> 0, chain |-> <<>>]

Constructed(n) ==
    /\ elems = n
    /\ buckets_per_table_ = BucketsPerTable(n)
    /\ tables_ = [i \in 0 .. NumHashes - 1 |-> Alloc(BucketsPerTable(n))]
    /\ aborted = FALSE
    /\ last = NoCall
    /\ stored = {}
    /\ written = [k \in HashedKeys \ {kEmpty} |-> 0]

Returned(outcome) == outcome \in {"inserted", "duplicate"}

Insert(k) ==
    /\ ~aborted
    /\ LET r == insert(tables_, k)
       IN /\ tables_' = r.tables
          /\ aborted' = ~Returned(r.outcome)
          /\ last' = [op |-> "insert", key |-> k, it |-> r.it, outcome |-> r.outcome,
                      rounds |-> r.rounds, chain |-> r.chain]
          /\ stored' = IF r.outcome = "inserted" THEN stored \cup {k} ELSE stored
    /\ UNCHANGED <<elems, buckets_per_table_, written>>

\* erase(find(k)) for a stored key (erase of end() dereferences tables_[NumHashes])
Erase(k) ==
    /\ ~aborted
    /\ find(tables_, k) # EndIt
    /\ tables_' = erase(tables_, find(tables_, k))
    /\ last' = [op |-> "erase", key |-> k, it |-> find(tables_, k),
                outcome |-> "erased", rounds |-> 0, chain |-> <<>>]
    /\ stored' = stored \ {k}
    /\ written' = [written EXCEPT ![k] = 0]
    /\ UNCHANGED <<elems, buckets_per_table_, aborted>>

\* One pass of the test's loop without its ASSERT (lines 47-50): insert k
\* and, when the call returned, it->value = k + 1 through the returned iterator.
InsertAndSet(k) ==
    /\ ~aborted
    /\ LET r == insert(tables_, k)
       IN /\ tables_' = IF Returned(r.outcome)
                        THEN [r.tables EXCEPT ![r.it.table][r.it.index].value = k + 1]
                        ELSE r.tables
          /\ aborted' = ~Returned(r.outcome)
          /\ last' = [op |-> "insert", key |-> k, it |-> r.it, outcome |-> r.outcome,
                      rounds |-> r.rounds, chain |-> r.chain]
          /\ stored' = IF r.outcome = "inserted" THEN stored \cup {k} ELSE stored
          /\ written' = IF Returned(r.outcome) THEN [written EXCEPT ![k] = k + 1]
                        ELSE written
    /\ UNCHANGED <<elems, buckets_per_table_>>

\* ------------------------------------------------------- specifications
\* A table of capacity MaxElems under any sequence of insert and erase calls.
Init == Constructed(MaxElems)

Next ==
    \/ \E k \in Keys : Insert(k)
    \/ \E k \in Keys : Erase(k)

Spec == Init /\ [][Next]_vars

\* The test's run: one table, insert-only, each key new (the test asserts
\* inserted? = true) and given its payload, no more than elems keys in all
\* (the constructor's contract).
NextFill ==
    \E k \in FillKeys \ stored :
        /\ Cardinality(stored) < elems
        /\ InsertAndSet(k)

SpecFill == Init /\ [][NextFill]_vars

\* Tables of the capacities up to MaxElems (for each bucket count the largest
\* capacity that yields it: the table depends on elems through B alone), and
\* keys that all hash to the same buckets (k = i * B), inserted and erased in
\* any order.
InitCollide ==
    \E n \in 1 .. MaxElems :
        /\ n = MaxElems \/ BucketsPerTable(n + 1) > BucketsPerTable(n)
        /\ Constructed(n)

NextCollide ==
    \/ \E k \in CollidingKeys(buckets_per_table_) : Insert(k)
    \/ \E k \in CollidingKeys(buckets_per_table_) : Erase(k)

SpecCollide == InitCollide /\ [][NextCollide]_vars

\* Insert and erase calls that keep to the constructor's contract: a key is
\* inserted only while it is absent and fewer than elems keys are stored.
NextWithin ==
    \/ \E k \in Keys \ stored :
          /\ Cardinality(stored) < elems
          /\ Insert(k)
    \/ \E k \in Keys : Erase(k)

SpecWithin == Init /\ [][NextWithin]_vars

\* The test's run on a larger table: a table built for ChainElems elements
\* (B = 4), insert-only, each key new and given its payload, no more than
\* elems keys in all. Here an insert can need a chain of three slots.
InitChain == Constructed(ChainElems)

NextChain ==
    \E k \in ChainKeys \ stored :
        /\ Cardinality(stored) < elems
        /\ InsertAndSet(k)

SpecChain == InitChain /\ [][NextChain]_vars

\* ------------------------------------------------------------------ claims
AllCoords ==
    {It(t, j) : t \in 0 .. NumHashes - 1, j \in 0 .. buckets_per_table_ - 1}

\* (Hash(t, k) mod B + d) mod B, as the claims write a bucket position
WrapIndex(k, t, d) ==
    (((k + t) % buckets_per_table_) + d) % buckets_per_table_

HoldsKey(k) == {c \in AllCoords : Slot(tables_, c).key = k}

\* keys for which an insert call has returned in the fill specification
Inserted == {k \in FillKeys : written[k] # 0}

Relocated(k) ==
    /\ last.op = "insert"
    /\ last.outcome = "inserted"
    /\ Len(last.chain) >= 2
    /\ k # last.key
    /\ find(tables_, k) = last.chain[1]

\* C1: after any sequence of inserts into a fresh table, every inserted key is
\* found by find, and the slot find returns holds that key; this includes keys
\* that a later insert relocated through an eviction chain.
C1_FindAfterInsert ==
    \A k \in Inserted :
        /\ find(tables_, k) # EndIt
        /\ Equals(k, Slot(tables_, find(tables_, k)))

C1_Witness ==
    /\ Cardinality(Inserted) >= 2
    /\ \E k \in Inserted : Relocated(k) /\ Equals(k, Slot(tables_, find(tables_, k)))

\* C2 as stated: no insert of a new key ends in table-full while the table
\* holds fewer than elems entries.
C2_FullOnlyAtCapacity ==
    (last.op = "insert" /\ last.outcome = "full") => Cardinality(stored) >= elems

\* C2 as amended: an insert of a key that is not in the table never returns
\* inserted? = false, and it ends in table-full only when every slot of the
\* key's home buckets is occupied at the call, so never while the table holds
\* fewer than NumHashes * min(BucketWidth, B) entries.
C2_FullOnlyWhenHomeBucketsFull ==
    [][(last'.op = "insert" /\ last'.key \notin stored) =>
          /\ last'.outcome \in {"inserted", "full"}
          /\ last'.outcome = "full" =>
                /\ \A d \in 0 .. BucketWidth - 1, t \in 0 .. NumHashes - 1 :
                      tables_[t][WrapIndex(last'.key, t, d)].key # kEmpty
                /\ Cardinality(stored) >=
                      NumHashes * (IF BucketWidth < buckets_per_table_
                                   THEN BucketWidth ELSE buckets_per_table_)]_vars

C2_Witness ==
    /\ last.op = "insert"
    /\ last.outcome = "full"
    /\ Cardinality(stored) = NumHashes * BucketWidth
    /\ Cardinality(stored) < elems

\* C3: no key is stored in more than one occupied slot.
C3_Uniqueness ==
    \A c1 \in AllCoords, c2 \in AllCoords :
        /\ ~Empty(Slot(tables_, c1))
        /\ Slot(tables_, c1).key = Slot(tables_, c2).key
        => c1 = c2

\* an insert of a stored key whose slot comes after an empty slot in the scan
C3_Witness ==
    /\ last.op = "insert"
    /\ last.outcome = "duplicate"
    /\ Cardinality(HoldsKey(last.key)) = 1
    /\ \E n \in 1 .. NumHashes * BucketWidth :
          /\ Empty(Slot(tables_, ScanOrder(last.key)[n]))
          /\ \E m \in n + 1 .. NumHashes * BucketWidth :
                ScanOrder(last.key)[m] = last.it

\* C4: every occupied slot (t, j) holds a key k with
\* j = (Hash(t, k) mod B + d) mod B for some 0 <= d < BucketWidth.
C4_Residence ==
    \A c \in AllCoords :
        ~Empty(Slot(tables_, c)) =>
            \E d \in 0 .. BucketWidth - 1 :
                c.index = WrapIndex(Slot(tables_, c).key, c.table, d)

\* an insert has just relocated an entry into its alternate bucket
C4_Witness ==
    /\ last.op = "insert"
    /\ last.outcome = "inserted"
    /\ Len(last.chain) >= 2
    /\ ~Empty(Slot(tables_, last.chain[1]))
    /\ Slot(tables_, last.chain[Len(last.chain)]).key = last.key

\* C5: insert(k) of a stored key returns inserted? = false with the coordinate
\* of the slot that holds k, which is the coordinate find(k) returns and the
\* one the insert that placed k returned when it was the previous call; no
\* slot changes.
C5_InsertIdempotent ==
    [][(last'.op = "insert" /\ last'.key \in stored) =>
          /\ last'.outcome = "duplicate"
          /\ last'.it = find(tables_, last'.key)
          /\ Equals(last'.key, Slot(tables_, last'.it))
          /\ tables_' = tables_
          /\ stored' = stored
          /\ (last.op = "insert" /\ last.outcome = "inserted"
                 /\ last.key = last'.key) => last'.it = last.it]_vars

C5_Witness ==
    /\ last.op = "insert"
    /\ last.outcome = "duplicate"
    /\ last.it = find(tables_, last.key)
    /\ Cardinality(stored) >= 2

\* C6: after erase(find(k)) of a stored key, find(k) returns end(), insert(k)
\* returns inserted? = true and find(k) then returns the slot holding k.
C6_FindAfterErase ==
    last.op = "erase" =>
        LET r == insert(tables_, last.key)
        IN /\ find(tables_, last.key) = EndIt
           /\ r.outcome = "inserted"
           /\ find(r.tables, last.key) # EndIt
           /\ Equals(last.key, Slot(r.tables, find(r.tables, last.key)))

C6_Witness ==
    /\ last.op = "erase"
    /\ stored # {}
    /\ find(tables_, last.key) = EndIt
    /\ insert(tables_, last.key).outcome = "inserted"

\* C7: every insert call ends placed, duplicate or table-full; it makes at
\* most 100 BFS expansions, and table-full comes after exactly 100.
C7_ProgressOrFull ==
    last.op = "insert" =>
        /\ last.outcome \in {"inserted", "duplicate", "full"}
        /\ last.rounds <= 100
        /\ last.outcome = "full" => last.rounds = 100

C7_Witness ==
    /\ last.op = "insert"
    /\ last.outcome = "full"
    /\ last.rounds = 100
    /\ aborted

\* C8: the payload written through the iterator insert(k) returned is the
\* payload of the slot find(k) returns, whatever inserts came later.
C8_PayloadFollowsKey ==
    \A k \in FillKeys :
        written[k] # 0 =>
            /\ find(tables_, k) # EndIt
            /\ Slot(tables_, find(tables_, k)) = [key |-> k, value |-> written[k]]

C8_Witness ==
    \E k \in FillKeys :
        /\ written[k] # 0
        /\ Relocated(k)
        /\ Slot(tables_, last.chain[1]).value = written[k]

\* C9: the constructor's bucket count satisfies
\* B * NumHashes >= capacity / 0.9, that is 9 * B * NumHashes >= 10 * capacity.
C9_Sizing == 9 * buckets_per_table_ * NumHashes >= 10 * elems

\* C10: the table refines the set `stored`: find(k) is not end() exactly for
\* the keys of the set, and insert(k) returns inserted? = false exactly for
\* them.
C10_RefinesSet ==
    \A k \in Keys :
        /\ find(tables_, k) # EndIt <=> k \in stored
        /\ insert(tables_, k).outcome = "duplicate" <=> k \in stored

C10_Witness ==
    /\ last.op = "erase"
    /\ stored # {}
    /\ find(tables_, last.key) = EndIt
    /\ \E k \in stored : insert(tables_, k).outcome = "duplicate"
    /\ \E k \in Keys \ stored : insert(tables_, k).outcome = "inserted"

\* ------------------------------------------------- relocation chains
\* the slots of the home buckets of key k, as the claims write them
HomeSlots(k) ==
    {It(t, WrapIndex(k, t, d)) : t \in 0 .. NumHashes - 1, d \in 0 .. BucketWidth - 1}

\* the slots of the alternate buckets of the entry with key k that sits in
\* table t
AltSlots(t, k) ==
    {It(t2, WrapIndex(k, t2, d)) :
        t2 \in (0 .. NumHashes - 1) \ {t}, d \in 0 .. BucketWidth - 1}

OccupiedSlots(tb) == {c \in AllCoords : ~Empty(Slot(tb, c))}

KeysOf(tb) == {Slot(tb, c).key : c \in OccupiedSlots(tb)}

\* The number of slots of a shortest relocation chain for key k in table tb:
\* from a slot of a home bucket of k, each step going from an occupied slot to
\* a slot of an alternate bucket of its occupant, to an empty slot. S is the
\* set of slots reached by chains of len slots; 0 when no empty slot can be
\* reached.
RECURSIVE Shortest(_, _, _)
Shortest(tb, S, len) ==
    IF \E c \in S : Empty(Slot(tb, c)) THEN len
    ELSE LET T == S \cup UNION {AltSlots(c.table, Slot(tb, c).key) : c \in S}
         IN IF T = S THEN 0 ELSE Shortest(tb, T, len + 1)

ShortestChain(tb, k) == Shortest(tb, HomeSlots(k), 1)

HomeFull(tb, k) == \A c \in HomeSlots(k) : ~Empty(Slot(tb, c))

\* C11: an insert of an absent key whose home buckets are full, when a
\* relocation chain exists, returns inserted? = true with an iterator inside a
\* home bucket of the key, and every key stored before is still found.
C11_EvictionInsert ==
    [][(/\ last'.op = "insert"
        /\ HomeFull(tables_, last'.key)
        /\ last'.key \notin KeysOf(tables_)
        /\ ShortestChain(tables_, last'.key) # 0)
       => /\ last'.outcome = "inserted"
          /\ last'.it \in HomeSlots(last'.key)
          /\ Equals(last'.key, Slot(tables_', last'.it))
          /\ \A k \in KeysOf(tables_) :
                /\ find(tables_', k) # EndIt
                /\ Equals(k, Slot(tables_', find(tables_', k)))]_vars

\* an insert has just placed its key through a chain of three slots and all
\* the keys are found
C11_Witness ==
    /\ last.op = "insert"
    /\ last.outcome = "inserted"
    /\ Len(last.chain) = 3
    /\ last.it = last.chain[3]
    /\ last.it \in HomeSlots(last.key)
    /\ \A k \in stored : find(tables_, k) # EndIt

\* the slots of a chain
ChainSlots(chain) == {chain[i] : i \in 1 .. Len(chain)}

\* the number of slots of tb that hold the entry e
EntryCount(tb, e) == Cardinality({c \in AllCoords : Slot(tb, c) = e})

\* C12: an insert that runs EvictChain over a chain of L slots changes only
\* these L slots; each chain slot but the root then holds the entry its
\* successor held, the root holds the new key, the number of occupied slots
\* grows by one, and every entry is stored as many times as before (the new
\* one once more).
C12_NoDuplication ==
    [][(last'.op = "insert" /\ Len(last'.chain) > 0) =>
          LET chain == last'.chain
              L == Len(chain)
              new == Slot(tables_', chain[L])
          IN /\ last'.outcome = "inserted"
             /\ L >= 2
             /\ \A c \in AllCoords \ ChainSlots(chain) :
                   Slot(tables_', c) = Slot(tables_, c)
             /\ \A i \in 1 .. L - 1 :
                   Slot(tables_', chain[i]) = Slot(tables_, chain[i + 1])
             /\ new.key = last'.key
             /\ Cardinality(OccupiedSlots(tables_')) =
                   Cardinality(OccupiedSlots(tables_)) + 1
             /\ \A c \in OccupiedSlots(tables_) \cup OccupiedSlots(tables_') :
                   LET e == IF c \in OccupiedSlots(tables_') THEN Slot(tables_', c)
                            ELSE Slot(tables_, c)
                   IN EntryCount(tables_', e) =
                         EntryCount(tables_, e) + (IF e = new THEN 1 ELSE 0)]_vars

\* after a chain of three slots, the two moved entries carry the payloads the
\* client wrote for their keys
C12_Witness ==
    /\ last.op = "insert"
    /\ last.outcome = "inserted"
    /\ Len(last.chain) = 3
    /\ \A i \in 1 .. 2 :
          /\ ~Empty(Slot(tables_, last.chain[i]))
          /\ Slot(tables_, last.chain[i]).value = written[Slot(tables_, last.chain[i]).key]
    /\ Cardinality(OccupiedSlots(tables_)) = Cardinality(stored)

\* C13: no insert ends in one of the three abort() calls of EvictChain; every
\* chain it reconstructs has at least two slots and ends at a seed of the
\* queue (a slot of a home bucket of the key), which is the slot the call
\* vacated and returned.
C13_EvictChainNeverAborts ==
    last.op = "insert" =>
        /\ last.outcome \notin {"abort_parent", "abort_short", "abort_vacated"}
        /\ Len(last.chain) > 0 =>
              /\ Len(last.chain) >= 2
              /\ last.it = last.chain[Len(last.chain)]
              /\ \E n \in 1 .. Len(SeedQueue(last.key)) :
                    /\ SeedQueue(last.key)[n].parent = kNoParent
                    /\ It(SeedQueue(last.key)[n].table,
                          SeedQueue(last.key)[n].index) = last.it

\* a chain whose tail hangs off a queue entry that is not a seed: two parent
\* links were followed
C13_Witness ==
    /\ last.op = "insert"
    /\ last.outcome = "inserted"
    /\ Len(last.chain) = 3
    /\ last.rounds > NumHashes * BucketWidth
    /\ Slot(tables_, last.chain[3]).key = last.key

\* the chain is made of pairwise distinct slots, its tail is empty and the
\* others are occupied
ProperChain(tb, chain) ==
    /\ Len(chain) >= 2
    /\ \A i \in 1 .. Len(chain), j \in 1 .. Len(chain) : chain[i] = chain[j] => i = j
    /\ Empty(Slot(tb, chain[1]))
    /\ \A i \in 2 .. Len(chain) : ~Empty(Slot(tb, chain[i]))

\* C14 as stated: on the chain of an eviction, the swaps taken from the root
\* end (i = L-1 down to 1) and the swaps the code makes (i = 0 up to L-2)
\* leave the same slot contents, and the root is empty after both.
C14_SwapOrdersAgree ==
    [][(last'.op = "insert" /\ ProperChain(tables_, last'.chain)) =>
          LET chain == last'.chain
              L == Len(chain)
              up == SwapChain(tables_, chain, 0)
              down == SwapRootFirst(tables_, chain, L - 1)
          IN /\ up = down
             /\ Empty(Slot(up, chain[L]))
             /\ Empty(Slot(down, chain[L]))]_vars

\* C14 as amended: the swaps the code makes (i = 0 up to L-2) move every entry
\* of the chain one slot towards the tail and leave the root empty; the swaps
\* taken from the root end give the same contents only when L = 2, and for
\* L >= 3 they leave the root's entry in the tail slot, c_1 empty and the root
\* occupied by the entry of c_{L-2}.
C14_SwapOrdersAgreeOnlyForPairs ==
    [][(last'.op = "insert" /\ ProperChain(tables_, last'.chain)) =>
          LET chain == last'.chain
              L == Len(chain)
              up == SwapChain(tables_, chain, 0)
              down == SwapRootFirst(tables_, chain, L - 1)
          IN /\ Empty(Slot(up, chain[L]))
             /\ \A i \in 1 .. L - 1 : Slot(up, chain[i]) = Slot(tables_, chain[i + 1])
             /\ L = 2 => down = up
             /\ L >= 3 =>
                   /\ down # up
                   /\ Slot(down, chain[1]) = Slot(tables_, chain[L])
                   /\ Empty(Slot(down, chain[2]))
                   /\ Slot(down, chain[L]) = Slot(tables_, chain[L - 1])
                   /\ ~Empty(Slot(down, chain[L]))]_vars

\* an eviction over three pairwise distinct slots has taken place
C14_Witness ==
    /\ last.op = "insert"
    /\ last.outcome = "inserted"
    /\ Len(last.chain) = 3
    /\ Cardinality(ChainSlots(last.chain)) = 3
    /\ \A i \in 1 .. 3 : ~Empty(Slot(tables_, last.chain[i]))

\* every occupied slot of tb lies in a home bucket of its key
ResidenceIn(tb) ==
    \A c \in OccupiedSlots(tb) : c \in HomeSlots(Slot(tb, c).key)

\* no key is held by two occupied slots of tb
UniqueIn(tb) ==
    \A c1 \in OccupiedSlots(tb), c2 \in OccupiedSlots(tb) :
        Slot(tb, c1).key = Slot(tb, c2).key => c1 = c2

\* C15: an insert that ends in table-full (the abort after the BFS loop) has
\* modified no slot: the table, and with it residence, uniqueness and the set
\* of stored keys, are those of the state before the call.
C15_FullLeavesTable ==
    [][(last'.op = "insert" /\ last'.outcome = "full") =>
          /\ tables_' = tables_
          /\ KeysOf(tables_') = KeysOf(tables_)
          /\ stored' = stored
          /\ ResidenceIn(tables_')
          /\ UniqueIn(tables_')]_vars

\* the process has aborted in table-full and the table holds exactly the
\* stored keys, the key of the call not among them
C15_Witness ==
    /\ last.op = "insert"
    /\ last.outcome = "full"
    /\ aborted
    /\ stored # {}
    /\ KeysOf(tables_) = stored
    /\ last.key \notin KeysOf(tables_)
    /\ ResidenceIn(tables_)

\* position n (from 0) of the scan order of key k: table 0 before table 1,
\* and in a bucket from the base position upward with wrap-around
ScanSlot(k, n) == It(n \div BucketWidth, WrapIndex(k, n \div BucketWidth, n % BucketWidth))

EmptyPositions(tb, k) ==
    {n \in 0 .. NumHashes * BucketWidth - 1 : Empty(Slot(tb, ScanSlot(k, n)))}

\* C16: an insert of an absent key with an empty slot in its home buckets
\* writes the key into the first empty slot of the scan order, returns that
\* coordinate with inserted? = true and changes nothing else.
C16_FastPath ==
    [][(/\ last'.op = "insert"
        /\ \A c \in AllCoords : Slot(tables_, c).key # last'.key
        /\ \E n \in 0 .. NumHashes * BucketWidth - 1 :
               Empty(Slot(tables_, ScanSlot(last'.key, n))))
       => LET k == last'.key
              free == EmptyPositions(tables_, k)
              n == CHOOSE i \in free : \A j \in free : i <= j
              c == ScanSlot(k, n)
          IN /\ last'.outcome = "inserted"
             /\ last'.it = c
             /\ last'.rounds = 0
             /\ last'.chain = <<>>
             /\ tables_' = [tables_ EXCEPT ![c.table][c.index].key = k]]_vars

\* a fast-path insert that went past occupied slots of table 0 into table 1
C16_Witness ==
    /\ last.op = "insert"
    /\ last.outcome = "inserted"
    /\ last.rounds = 0
    /\ last.it.table = 1
    /\ Slot(tables_, last.it).key = last.key
    /\ \A n \in 0 .. BucketWidth - 1 : ~Empty(Slot(tables_, ScanSlot(last.key, n)))

\* C17: when an insert succeeds through the BFS, its chain has as many slots
\* as the shortest relocation chain of the table at the start of the call.
C17_ShortestChain ==
    [][(last'.op = "insert" /\ last'.outcome = "inserted" /\ last'.rounds > 0) =>
          /\ HomeFull(tables_, last'.key)
          /\ Len(last'.chain) = ShortestChain(tables_, last'.key)
          /\ Empty(Slot(tables_, last'.chain[1]))
          /\ last'.chain[Len(last'.chain)] \in HomeSlots(last'.key)
          /\ \A i \in 2 .. Len(last'.chain) :
                last'.chain[i - 1] \in
                    AltSlots(last'.chain[i].table, Slot(tables_, last'.chain[i]).key)]_vars

\* a chain of three slots was taken, so none of two existed, and the table
\* had more than one empty slot, so there were several chains to choose from
C17_Witness ==
    /\ last.op = "insert"
    /\ last.outcome = "inserted"
    /\ Len(last.chain) = 3
    /\ AllCoords \ OccupiedSlots(tables_) # {}

\* C18: erase(it) empties the slot at it and changes no other slot; every
\* other stored key is found at the coordinate it was found at before.
C18_EraseFrame ==
    [][last'.op = "erase" =>
          /\ ~Empty(Slot(tables_, last'.it))
          /\ Empty(Slot(tables_', last'.it))
          /\ \A c \in AllCoords \ {last'.it} : Slot(tables_', c) = Slot(tables_, c)
          /\ \A k \in KeysOf(tables_) \ {last'.key} :
                /\ find(tables_', k) # EndIt
                /\ find(tables_', k) = find(tables_, k)]_vars

\* the emptied slot comes before the slot of another stored key in the scan of
\* one of that key's buckets
C18_Witness ==
    /\ last.op = "erase"
    /\ Empty(Slot(tables_, last.it))
    /\ \E k \in stored :
          \E n \in 0 .. NumHashes * BucketWidth - 2 :
              /\ ScanSlot(k, n) = last.it
              /\ ScanSlot(k, n + 1) = find(tables_, k)
              /\ ScanSlot(k, n + 1).table = last.it.table
              /\ Equals(k, Slot(tables_, find(tables_, k)))

\* C19: the coordinates of every chain EvictChain reconstructs are pairwise
\* distinct.
C19_ChainDistinct ==
    (last.op = "insert" /\ Len(last.chain) > 0) =>
        \A i \in 1 .. Len(last.chain), j \in 1 .. Len(last.chain) :
            last.chain[i] = last.chain[j] => i = j

\* A chain of three distinct slots found after so many expansions that the
\* queue held more entries than the table has slots, hence some coordinate
\* more than once: each expansion that finds no empty slot pushes
\* (NumHashes - 1) * BucketWidth entries.
C19_Witness ==
    /\ last.op = "insert"
    /\ last.outcome = "inserted"
    /\ Len(last.chain) = 3
    /\ Cardinality(ChainSlots(last.chain)) = Len(last.chain)
    /\ NumHashes * BucketWidth + (last.rounds - 1) * (NumHashes - 1) * BucketWidth
           > NumHashes * buckets_per_table_

InRange(c) ==
    /\ c.table \in 0 .. NumHashes - 1
    /\ c.index \in 0 .. buckets_per_table_ - 1

\* C20: B >= 1 for every capacity; the slots that find and the insert
\* pre-scan read, that the BFS seeds and enqueues, and that make up a chain
\* are inside the tables and are those of the wrap-around bucket
\* (base = hash mod B, next = index + 1, reset to 0 on reaching B); the read
\* index qi stays below the queue length.
C20_ProbeBounds ==
    /\ buckets_per_table_ >= 1
    /\ \A n \in 1 .. MaxElems : BucketsPerTable(n) >= 1
    /\ \A k \in Keys \cup CollidingKeys(buckets_per_table_) :
          /\ \A n \in 1 .. NumHashes * BucketWidth :
                /\ InRange(ScanOrder(k)[n])
                /\ ScanOrder(k)[n] = ScanSlot(k, n - 1)
                /\ SeedQueue(k)[n].parent = kNoParent
                /\ It(SeedQueue(k)[n].table, SeedQueue(k)[n].index) = ScanSlot(k, n - 1)
          /\ \A t \in 0 .. NumHashes - 1 :
                LET alts == AltCoords(It(t, 0), [key |-> k, value |-> Uninit])
                IN /\ Len(alts) = (NumHashes - 1) * BucketWidth
                   /\ \A n \in 1 .. Len(alts) : InRange(alts[n])
                   /\ {alts[n] : n \in 1 .. Len(alts)} = AltSlots(t, k)
    /\ last.op \in {"insert", "erase"} =>
          /\ last.outcome # "oob"
          /\ last.it = EndIt \/ InRange(last.it)
          /\ \A i \in 1 .. Len(last.chain) : InRange(last.chain[i])

\* an insert has placed its key in a slot reached by wrapping past the end of
\* the table
C20_Witness ==
    /\ last.op = "insert"
    /\ last.outcome = "inserted"
    /\ buckets_per_table_ >= 2
    /\ InRange(last.it)
    /\ last.it.index < WrapIndex(last.key, last.it.table, 0)
    /\ Slot(tables_, last.it).key = last.key

====
